---- MODULE Spec2Model ----
(***************************************************************************)
(* A model of the browser pool of the dividend service (class BrowserPool) *)
(* and of scrapeDividendData, the one function that borrows from it.       *)
(*                                                                         *)
(* JavaScript runs one continuation at a time, so an action of this model  *)
(* is the code that runs between two awaits: the synchronous prefix of a   *)
(* function, or the continuation of one awaited promise.  An awaited       *)
(* puppeteer call is an external collaborator: it may resolve or reject.   *)
(*                                                                         *)
(* Four specifications share the variables:                                *)
(*   Spec          the pool under concurrent scrapeDividendData calls;     *)
(*   SpecShutdown  the same with the SIGINT/SIGTERM handlers and           *)
(*                 BrowserPool.cleanup();                                  *)
(*   SpecHttp      the request handlers and the result cache, where a      *)
(*                 scrapeDividendData call is one awaited promise that     *)
(*                 settles with any of the results the function can give;  *)
(*   SpecCache     the GET handler and the result cache over time.         *)
(***************************************************************************)
EXTENDS Integers, Sequences, FiniteSets, TLC

\* ------------------------------------------------------------------ bounds
\* Number of scrapeDividendData calls; they are numbered in the order in
\* which they are invoked (call c starts only after call c-1 has started).
NCalls == 3

\* The pool is constructed with a maxSize of 1..MaxPool
\* (CONFIG.browser.maxConcurrent, which the environment sets).
MaxPool == 2

\* At most MaxFaults awaited puppeteer calls reject in one run.
MaxFaults == 3

\* The retry bound of the navigation loop.
maxRetries == 3

\* The base of the backoff, in milliseconds.
baseDelayMs == 1000

Calls == 1..NCalls

\* The instance launched by call c is named c; 0 is JavaScript's null.
Browsers == Calls
NoBrowser == 0

\* Number of signals (SIGINT, SIGTERM) the process receives.
NSignals == 1

Signals == 1..NSignals

\* Number of HTTP requests; they are numbered in the order of their arrival.
NReqs == 2

Reqs == 1..NReqs

\* A batch body carries at most MaxBatch tickers, and at most MaxBatchReqs
\* of the requests are batch requests.
MaxBatch == 2
MaxBatchReqs == 1

\* The clock runs from 0 to MaxTime seconds.
MaxTime == 3

\* CONFIG.cache.ttl in seconds (the environment sets it; 60 by default).
stdTTL == 2

\* The bounds of the ticker pattern and of the batch size.
maxTickerLen == 10
maxBatchTickers == 10

\* ------------------------------------------------------------------ tickers
\* A string is a sequence of characters.  The tickers a client sends: two
\* spellings of one symbol, a second symbol, and one with a character
\* outside the pattern.
Tickers == {<<"k">>, <<"K">>, <<"M">>, <<"k", "$">>}

\* The characters of the alphabet that the class [A-Za-z0-9.-] holds.
PatternChars == {"k", "K", "M"}

\* /^[A-Za-z0-9.-]{1,10}$/.test(ticker)
MatchesPattern(t) ==
    /\ Len(t) >= 1
    /\ Len(t) <= maxTickerLen
    /\ \A i \in 1..Len(t) : t[i] \in PatternChars

\* String.prototype.toUpperCase
UpperChar(ch) == IF ch = "k" THEN "K" ELSE ch

toUpperCase(t) == [i \in 1..Len(t) |-> UpperChar(t[i])]

\* `dividend:${ticker}`
cacheKey(t) == <<"dividend:">> \o t

UpperTickers == {toUpperCase(t) : t \in Tickers}

Keys == {cacheKey(t) : t \in UpperTickers}

\* ------------------------------------------------------- extraction results
\* What page.evaluate returns for a row of at least four cells: the trimmed
\* text of the first four cells, each of which may be empty.
Row(e, p, d, y) == [exDate |-> e, payDate |-> p, dividend |-> d, yield |-> y]

NoRow == Row("", "", "", "")

Rows ==
    { Row("2024-01-15", "2024-02-01", "0.25", "0.5%"),
      Row("", "2024-02-01", "0.25", "0.5%"),
      Row("N/A", "N/A", "N/A", "N/A"),
      Row("2024-01-15", "", "0.25", "0.5%") }

\* The messages of the errors scrapeDividendData rejects with, by the
\* substrings the GET handler looks for.
Messages == {"Table load timeout", "Navigation failed", "Protocol error"}

IncludesTimeout(m) == m = "Table load timeout"

IncludesNavigationFailed(m) == m = "Navigation failed"

\* What a scrapeDividendData call settles with: a row, null, or an error.
RowResult(r) == [kind |-> "row", row |-> r, message |-> ""]

NullResult == [kind |-> "null", row |-> NoRow, message |-> ""]

ErrorResult(m) == [kind |-> "error", row |-> NoRow, message |-> m]

ScrapeResults ==
    {RowResult(r) : r \in Rows} \cup {NullResult} \cup {ErrorResult(m) : m \in Messages}

VARIABLES
    maxSize,         \* BrowserPool.maxSize
    browsers,        \* BrowserPool.browsers: the idle list
    queue,           \* BrowserPool.queue: the callers suspended in getBrowser
    activeBrowsers,  \* BrowserPool.activeBrowsers
    inst,            \* each instance: "absent", "open", "closed", "lost"
    npages,          \* number of pages open in each instance
    pc,              \* where each scrapeDividendData call stands
    browser,         \* the local variable browser of each call
    retryCount,      \* the local variable retryCount of each call
    outcome,         \* what the try block of the call produced
    settled,         \* what the promise of the call settled with
    hist,            \* per call: what the call has done so far (history)
    faults,          \* number of awaited puppeteer calls that rejected so far
    exited,          \* process.exit(0) has been reached
    sig,             \* where each signal handler stands inside cleanup()
    now,             \* the clock, in seconds
    cache,           \* the NodeCache instance: key -> entry
    req,             \* each HTTP request: its input, position and response
    wrote,           \* per key: the last cache.set not yet invalidated (history)
    last             \* the scrape that settled in the last step, if any (history)

poolVars == <<browsers, queue, activeBrowsers>>
instVars == <<inst, npages>>
callVars == <<pc, browser, retryCount, outcome, settled>>
shutVars == <<exited, sig>>
httpVars == <<now, cache, req, wrote, last>>
vars == <<maxSize, browsers, queue, activeBrowsers, inst, npages, pc, browser, retryCount,
          outcome, settled, hist, faults, exited, sig, now, cache, req, wrote, last>>

\* ----------------------------------------------------------- values at rest
\* The object a handler caches or sends: the ticker, the row, and the field
\* cached ("absent" when the object has no such field).
Obj(t, r, c) == [ticker |-> t, row |-> r, cached |-> c]

NoObj == Obj(<<>>, NoRow, "absent")

\* A response body or one entry of a batch result map: an object, or an
\* { error } object; kind "none" is JavaScript's undefined.
ObjVal(o) == [kind |-> "object", obj |-> o, error |-> ""]

ErrVal(e) == [kind |-> "error", obj |-> NoObj, error |-> e]

NoVal == [kind |-> "none", obj |-> NoObj, error |-> ""]

\* A cache entry: the stored object and the second at which it expires.
NoEntry == [present |-> FALSE, value |-> NoObj, expires |-> 0]

\* The record of the last cache.set of a key (history).
NoWrite == [at |-> 0, value |-> NoObj, valid |-> FALSE]

\* One ticker of a batch, or the ticker of a GET: where it stands, its
\* upper-cased ticker, whether scrapeDividendData was invoked for it, and
\* what its cache lookup returned.
NoItem == [st |-> "done", arg |-> <<>>, scraped |-> FALSE, hit |-> NoVal]

\* The request, the ticker and the result of the scrape that settled in the
\* step just taken; r = 0 when the step was no such step.
NoLast == [r |-> 0, i |-> 0, res |-> NullResult]

\* An HTTP request: kind "none" until it arrives, at second at.
NoReq ==
    [kind |-> "none", pc |-> "new", at |-> 0, tickers |-> <<>>, item |-> <<>>, status |-> 0,
     body |-> NoVal, results |-> [u \in UpperTickers |-> NoVal]]

\* A signal handler: pc "idle" until its signal arrives; idx and b are the
\* position of the for-of loop of cleanup() and the instance being closed.
NoSig == [pc |-> "idle", idx |-> 0, b |-> NoBrowser]

\* ----------------------------------------------------------------- history
\* hist[c] records, for the call c:
\*   via        how getBrowser resolved: "none", "idle", "launch", "release"
\*   saturated  getBrowser found no idle instance and no capacity left
\*   launches   number of puppeteer.launch calls made for it
\*   reserved   activeBrowsers increments minus decrements made by its getBrowser
\*   attempts   number of page.goto calls
\*   delays     the waits of the navigation loop, in order, in ms
\*   navErr     the attempt whose error the navigation loop threw (0: none)
\*   ranWait    the content wait was started
\*   ranEval    the extraction was started
\*   releases   number of releaseBrowser calls it made
\*   relQueued  some caller was queued when it called releaseBrowser
\*   cleanFail  the cleanup of its releaseBrowser failed
\*   woke       the waiter its releaseBrowser resolved (0: none)
\*   wokeN      number of waiters its releaseBrowser resolved
\*   relDec     activeBrowsers decrements made by its releaseBrowser
\*   toIdle     its releaseBrowser pushed the instance on the idle list
\*   relThrew   its releaseBrowser rejected
\* The locals and the history of a call are dropped when the call returns.
NoHist ==
    [via |-> "none", saturated |-> FALSE, launches |-> 0, reserved |-> 0,
     attempts |-> 0, delays |-> <<>>, navErr |-> 0, ranWait |-> FALSE,
     ranEval |-> FALSE, releases |-> 0, relQueued |-> FALSE, cleanFail |-> FALSE,
     woke |-> 0, wokeN |-> 0, relDec |-> 0, toIdle |-> FALSE,
     relThrew |-> FALSE]

Init ==
    /\ maxSize \in 1..MaxPool
    /\ browsers = <<>>
    /\ queue = <<>>
    /\ activeBrowsers = 0
    /\ inst = [b \in Browsers |-> "absent"]
    /\ npages = [b \in Browsers |-> 0]
    /\ pc = [c \in Calls |-> "init"]
    /\ browser = [c \in Calls |-> NoBrowser]
    /\ retryCount = [c \in Calls |-> 0]
    /\ outcome = [c \in Calls |-> "none"]
    /\ settled = [c \in Calls |-> "none"]
    /\ hist = [c \in Calls |-> NoHist]
    /\ faults = 0
    /\ exited = FALSE
    /\ sig = [h \in Signals |-> NoSig]
    /\ now = 0
    /\ cache = [k \in Keys |-> NoEntry]
    /\ req = [r \in Reqs |-> NoReq]
    /\ wrote = [k \in Keys |-> NoWrite]
    /\ last = NoLast

\* ------------------------------------------------------------- the helpers
Last(s) == s[Len(s)]

RemoveAt(s, i) == SubSeq(s, 1, i - 1) \o SubSeq(s, i + 1, Len(s))

\* this.browsers.pop() hands out the last element of the idle list ...
PoppedBrowser(s) == Last(s)

AfterPop_Peek(s) == s

\* ... and leaves the rest.
AfterPop(s) == SubSeq(s, 1, Len(s) - 1)

HasCapacity_OffByOne == activeBrowsers <= maxSize

\* The test of the second branch of getBrowser.
HasCapacity == activeBrowsers < maxSize

ServedIndex_Last(q) == Len(q)

\* this.queue.shift() serves the first entry of the queue.
ServedIndex(q) == 1

BackoffMs_Constant(rc) == baseDelayMs

\* The wait before the next navigation attempt, after retryCount failures.
BackoffMs(rc) == baseDelayMs * rc

\* The navigation loop gives up when retryCount reaches maxRetries.
RetriesExhausted(rc) == rc = maxRetries

\* The call c has an instance in hand: getBrowser resolved for it and its
\* releaseBrowser has not yet given the instance back or closed it.
HeldPcs == {"newPage", "setUserAgent", "setViewport", "goto", "backoff", "wait",
            "evaluate", "relPages", "relClosePage", "relElseClose", "relCatchClose"}

\* The calls that are in flight.
InFlight(c) == pc[c] \notin {"init", "done"}

Holds(c, b) == browser[c] = b /\ pc[c] \in HeldPcs

Started(c) == pc[c] # "init"

\* An awaited puppeteer call rejects.
Fault ==
    /\ faults < MaxFaults
    /\ faults' = faults + 1

NoFault == faults' = faults

\* A step of a scrapeDividendData call: the process is alive, and the step
\* leaves the signal handlers, the clock, the cache and the requests alone.
PoolStep ==
    /\ ~exited
    /\ UNCHANGED <<shutVars, httpVars>>

\* ------------------------------------------- scrapeDividendData: try/finally
\* The call c settles with `out`; its locals go away.
Return(c, out) ==
    /\ pc' = [pc EXCEPT ![c] = "done"]
    /\ settled' = [settled EXCEPT ![c] = out]
    /\ browser' = [browser EXCEPT ![c] = NoBrowser]
    /\ retryCount' = [retryCount EXCEPT ![c] = 0]
    /\ outcome' = [outcome EXCEPT ![c] = "none"]
    /\ hist' = [hist EXCEPT ![c] = NoHist]

EnterFinally_OnSuccessOnly(c, out, h) ==
    IF browser[c] # NoBrowser /\ out \in {"data", "null"}
      THEN /\ pc' = [pc EXCEPT ![c] = "relPages"]
           /\ outcome' = [outcome EXCEPT ![c] = out]
           /\ hist' = [hist EXCEPT ![c] =
                         [h EXCEPT !.releases = @ + 1, !.relQueued = (queue # <<>>)]]
           /\ retryCount' = [retryCount EXCEPT ![c] = 0]
           /\ UNCHANGED <<browser, settled>>
      ELSE Return(c, out)

\* The try block of call c ends with `out` (a return value or a thrown error) and
\* the finally block runs: releaseBrowser is called if browser is not null, and
\* runs up to its first await, browser.pages(); with browser null the call
\* settles at once.  retryCount is a local of the try block and ends with it.
\* h is hist[c] as the step leaves it.
EnterFinally(c, out, h) ==
    IF browser[c] # NoBrowser
      THEN /\ pc' = [pc EXCEPT ![c] = "relPages"]
           /\ outcome' = [outcome EXCEPT ![c] = out]
           /\ hist' = [hist EXCEPT ![c] =
                         [h EXCEPT !.releases = @ + 1, !.relQueued = (queue # <<>>)]]
           /\ retryCount' = [retryCount EXCEPT ![c] = 0]
           /\ UNCHANGED <<browser, settled>>
      ELSE Return(c, out)

\* The await of releaseBrowser in the finally block is over: the call settles
\* with what its try block produced, or with the error releaseBrowser threw.
FinallyDone(c) ==
    /\ pc[c] = "relSettled"
    /\ Return(c, IF hist[c].relThrew THEN "errRelease" ELSE outcome[c])
    /\ NoFault
    /\ PoolStep
    /\ UNCHANGED <<maxSize, poolVars, instVars>>

\* --------------------------------------------------- BrowserPool.getBrowser
\* The synchronous part of scrapeDividendData and of the executor of getBrowser.
GetBrowser(c) ==
    /\ pc[c] = "init"
    /\ \A d \in Calls : d < c => Started(d)
    /\ IF Len(browsers) > 0
         THEN /\ browsers' = AfterPop(browsers)
              /\ browser' = [browser EXCEPT ![c] = PoppedBrowser(browsers)]
              /\ pc' = [pc EXCEPT ![c] = "newPage"]
              /\ hist' = [hist EXCEPT ![c].via = "idle"]
              /\ UNCHANGED <<queue, activeBrowsers>>
         ELSE IF HasCapacity
         THEN /\ activeBrowsers' = activeBrowsers + 1
              /\ pc' = [pc EXCEPT ![c] = "launching"]
              /\ hist' = [hist EXCEPT ![c].launches = @ + 1, ![c].reserved = @ + 1,
                                      ![c].saturated = (activeBrowsers >= maxSize)]
              /\ UNCHANGED <<browsers, queue, browser>>
         ELSE /\ queue' = Append(queue, c)
              /\ pc' = [pc EXCEPT ![c] = "queued"]
              /\ hist' = [hist EXCEPT ![c].saturated = TRUE]
              /\ UNCHANGED <<browsers, activeBrowsers, browser>>
    /\ NoFault
    /\ PoolStep
    /\ UNCHANGED <<maxSize, inst, npages, retryCount, outcome, settled>>

\* puppeteer.launch resolved: resolve(browser); the call goes on to newPage.
LaunchOk(c) ==
    /\ pc[c] = "launching"
    /\ inst' = [inst EXCEPT ![c] = "open"]
    /\ npages' = [npages EXCEPT ![c] = 1]
    /\ browser' = [browser EXCEPT ![c] = c]
    /\ pc' = [pc EXCEPT ![c] = "newPage"]
    /\ hist' = [hist EXCEPT ![c].via = "launch"]
    /\ NoFault
    /\ PoolStep
    /\ UNCHANGED <<maxSize, browsers, queue, activeBrowsers, retryCount, outcome, settled>>

LaunchFail_NoGiveBack(c) ==
    /\ pc[c] = "launching"
    /\ Fault
    /\ PoolStep
    /\ EnterFinally(c, "errLaunch", hist[c])
    /\ UNCHANGED <<maxSize, browsers, queue, activeBrowsers, inst, npages>>

\* puppeteer.launch rejected: the catch of getBrowser, then the caller's finally.
LaunchFail(c) ==
    /\ pc[c] = "launching"
    /\ Fault
    /\ PoolStep
    /\ activeBrowsers' = activeBrowsers - 1
    /\ EnterFinally(c, "errLaunch", [hist[c] EXCEPT !.reserved = @ - 1])
    /\ UNCHANGED <<maxSize, browsers, queue, inst, npages>>

\* ------------------------------------------- scrapeDividendData: the try block
NewPageOk(c) ==
    /\ pc[c] = "newPage"
    /\ npages' = [npages EXCEPT ![browser[c]] = @ + 1]
    /\ pc' = [pc EXCEPT ![c] = "setUserAgent"]
    /\ NoFault
    /\ PoolStep
    /\ UNCHANGED <<maxSize, poolVars, inst, browser, retryCount, outcome, settled, hist>>

NewPageFail(c) ==
    /\ pc[c] = "newPage"
    /\ Fault
    /\ PoolStep
    /\ EnterFinally(c, "errNewPage", hist[c])
    /\ UNCHANGED <<maxSize, poolVars, instVars>>

SetUserAgentOk(c) ==
    /\ pc[c] = "setUserAgent"
    /\ pc' = [pc EXCEPT ![c] = "setViewport"]
    /\ NoFault
    /\ PoolStep
    /\ UNCHANGED <<maxSize, poolVars, instVars, browser, retryCount, outcome, settled, hist>>

SetUserAgentFail(c) ==
    /\ pc[c] = "setUserAgent"
    /\ Fault
    /\ PoolStep
    /\ EnterFinally(c, "errSetup", hist[c])
    /\ UNCHANGED <<maxSize, poolVars, instVars>>

\* setViewport resolved; setDefaultTimeout; retryCount = 0; the first page.goto.
SetViewportOk(c) ==
    /\ pc[c] = "setViewport"
    /\ retryCount' = [retryCount EXCEPT ![c] = 0]
    /\ pc' = [pc EXCEPT ![c] = "goto"]
    /\ hist' = [hist EXCEPT ![c].attempts = @ + 1]
    /\ NoFault
    /\ PoolStep
    /\ UNCHANGED <<maxSize, poolVars, instVars, browser, outcome, settled>>

SetViewportFail(c) ==
    /\ pc[c] = "setViewport"
    /\ Fault
    /\ PoolStep
    /\ EnterFinally(c, "errSetup", hist[c])
    /\ UNCHANGED <<maxSize, poolVars, instVars>>

\* page.goto resolved: break; the content wait (Promise.race) starts.
GotoOk(c) ==
    /\ pc[c] = "goto"
    /\ pc' = [pc EXCEPT ![c] = "wait"]
    /\ hist' = [hist EXCEPT ![c].ranWait = TRUE]
    /\ NoFault
    /\ PoolStep
    /\ UNCHANGED <<maxSize, poolVars, instVars, browser, retryCount, outcome, settled>>

\* page.goto rejected: retryCount++, then either rethrow or sleep.
GotoFail(c) ==
    /\ pc[c] = "goto"
    /\ Fault
    /\ PoolStep
    /\ IF RetriesExhausted(retryCount[c] + 1)
         THEN EnterFinally(c, "errNavigation",
                           [hist[c] EXCEPT !.navErr = hist[c].attempts])
         ELSE /\ retryCount' = [retryCount EXCEPT ![c] = @ + 1]
              /\ pc' = [pc EXCEPT ![c] = "backoff"]
              /\ hist' = [hist EXCEPT ![c].delays =
                            Append(@, BackoffMs(retryCount[c] + 1))]
              /\ UNCHANGED <<browser, outcome, settled>>
    /\ UNCHANGED <<maxSize, poolVars, instVars>>

\* The timer fired: the loop test, then the next page.goto.
Backoff(c) ==
    /\ pc[c] = "backoff"
    /\ IF retryCount[c] < maxRetries
         THEN /\ pc' = [pc EXCEPT ![c] = "goto"]
              /\ hist' = [hist EXCEPT ![c].attempts = @ + 1]
         ELSE /\ pc' = [pc EXCEPT ![c] = "wait"]
              /\ hist' = [hist EXCEPT ![c].ranWait = TRUE]
    /\ NoFault
    /\ PoolStep
    /\ UNCHANGED <<maxSize, poolVars, instVars, browser, retryCount, outcome, settled>>

\* A waitForSelector won the race: page.evaluate starts.
WaitOk(c) ==
    /\ pc[c] = "wait"
    /\ pc' = [pc EXCEPT ![c] = "evaluate"]
    /\ hist' = [hist EXCEPT ![c].ranEval = TRUE]
    /\ NoFault
    /\ PoolStep
    /\ UNCHANGED <<maxSize, poolVars, instVars, browser, retryCount, outcome, settled>>

\* The race rejected: a waitForSelector timeout or 'Table load timeout'.
WaitFail(c) ==
    /\ pc[c] = "wait"
    /\ Fault
    /\ PoolStep
    /\ EnterFinally(c, "errTimeout", hist[c])
    /\ UNCHANGED <<maxSize, poolVars, instVars>>

\* page.evaluate resolved, with the fields of the row or with null.
EvaluateOk(c) ==
    /\ pc[c] = "evaluate"
    /\ \E out \in {"data", "null"} : EnterFinally(c, out, hist[c])
    /\ NoFault
    /\ PoolStep
    /\ UNCHANGED <<maxSize, poolVars, instVars>>

EvaluateFail(c) ==
    /\ pc[c] = "evaluate"
    /\ Fault
    /\ PoolStep
    /\ EnterFinally(c, "errEvaluate", hist[c])
    /\ UNCHANGED <<maxSize, poolVars, instVars>>

\* ----------------------------------------------- BrowserPool.releaseBrowser
AfterCleanup_ViaIdle(c) ==
    LET b == browser[c] IN
    IF Len(queue) > 0
      THEN LET w == queue[1] IN
           /\ queue' = Tail(queue)
           /\ browsers' = Append(browsers, b)
           /\ browser' = [browser EXCEPT ![w] = b]
           /\ pc' = [pc EXCEPT ![c] = "relSettled", ![w] = "newPage"]
           /\ hist' = [hist EXCEPT ![c].woke = w, ![c].wokeN = @ + 1,
                                   ![w].via = "release"]
           /\ UNCHANGED activeBrowsers
      ELSE /\ browsers' = Append(browsers, b)
           /\ pc' = [pc EXCEPT ![c] = "relSettled"]
           /\ hist' = [hist EXCEPT ![c].toIdle = TRUE]
           /\ UNCHANGED <<queue, activeBrowsers, browser>>

\* The code after the page loop: hand the instance to the first waiter, or put it
\* on the idle list, or close it.  The first two end releaseBrowser.
AfterCleanup(c) ==
    LET b == browser[c] IN
    IF Len(queue) > 0
      THEN LET i == ServedIndex(queue)
               w == queue[i] IN
           /\ queue' = RemoveAt(queue, i)
           /\ browser' = [browser EXCEPT ![w] = b]
           /\ pc' = [pc EXCEPT ![c] = "relSettled", ![w] = "newPage"]
           /\ hist' = [hist EXCEPT ![c].woke = w, ![c].wokeN = @ + 1,
                                   ![w].via = "release"]
           /\ UNCHANGED <<browsers, activeBrowsers>>
      ELSE IF Len(browsers) < maxSize
      THEN /\ browsers' = Append(browsers, b)
           /\ pc' = [pc EXCEPT ![c] = "relSettled"]
           /\ hist' = [hist EXCEPT ![c].toIdle = TRUE]
           /\ UNCHANGED <<queue, activeBrowsers, browser>>
      ELSE /\ pc' = [pc EXCEPT ![c] = "relElseClose"]
           /\ UNCHANGED <<browsers, queue, activeBrowsers, browser, hist>>

\* browser.pages() resolved: close pages[1..], or go on if there is none.
RelPagesOk(c) ==
    /\ pc[c] = "relPages"
    /\ IF npages[browser[c]] > 1
         THEN /\ pc' = [pc EXCEPT ![c] = "relClosePage"]
              /\ UNCHANGED <<poolVars, browser, hist>>
         ELSE AfterCleanup(c)
    /\ NoFault
    /\ PoolStep
    /\ UNCHANGED <<maxSize, instVars, retryCount, outcome, settled>>

\* browser.pages() rejected: the catch block, up to its await browser.close().
RelPagesFail(c) ==
    /\ pc[c] = "relPages"
    /\ Fault
    /\ PoolStep
    /\ pc' = [pc EXCEPT ![c] = "relCatchClose"]
    /\ hist' = [hist EXCEPT ![c].cleanFail = TRUE]
    /\ UNCHANGED <<maxSize, poolVars, instVars, browser, retryCount, outcome, settled>>

\* pages[i].close() resolved: the next page, or the code after the loop.
RelClosePageOk(c) ==
    /\ pc[c] = "relClosePage"
    /\ npages' = [npages EXCEPT ![browser[c]] = @ - 1]
    /\ IF npages[browser[c]] - 1 > 1
         THEN UNCHANGED <<poolVars, pc, browser, hist>>
         ELSE AfterCleanup(c)
    /\ NoFault
    /\ PoolStep
    /\ UNCHANGED <<maxSize, inst, retryCount, outcome, settled>>

\* pages[i].close() rejected: the catch block, up to its await browser.close().
RelClosePageFail(c) ==
    /\ pc[c] = "relClosePage"
    /\ Fault
    /\ PoolStep
    /\ pc' = [pc EXCEPT ![c] = "relCatchClose"]
    /\ hist' = [hist EXCEPT ![c].cleanFail = TRUE]
    /\ UNCHANGED <<maxSize, poolVars, instVars, browser, retryCount, outcome, settled>>

\* The browser.close() of the catch block resolved: activeBrowsers--, log.
RelCatchCloseOk(c) ==
    /\ pc[c] = "relCatchClose"
    /\ inst' = [inst EXCEPT ![browser[c]] = "closed"]
    /\ activeBrowsers' = activeBrowsers - 1
    /\ pc' = [pc EXCEPT ![c] = "relSettled"]
    /\ hist' = [hist EXCEPT ![c].relDec = @ + 1]
    /\ NoFault
    /\ PoolStep
    /\ UNCHANGED <<maxSize, browsers, queue, npages, browser, retryCount, outcome, settled>>

\* The browser.close() of the catch block rejected: nothing catches it, so
\* releaseBrowser rejects.  Whether the instance still runs is not known.
RelCatchCloseFail(c) ==
    /\ pc[c] = "relCatchClose"
    /\ Fault
    /\ PoolStep
    /\ inst' = [inst EXCEPT ![browser[c]] = "lost"]
    /\ pc' = [pc EXCEPT ![c] = "relSettled"]
    /\ hist' = [hist EXCEPT ![c].relThrew = TRUE]
    /\ UNCHANGED <<maxSize, poolVars, npages, browser, retryCount, outcome, settled>>

\* The browser.close() of the last branch resolved: activeBrowsers--.
RelElseCloseOk(c) ==
    /\ pc[c] = "relElseClose"
    /\ inst' = [inst EXCEPT ![browser[c]] = "closed"]
    /\ activeBrowsers' = activeBrowsers - 1
    /\ pc' = [pc EXCEPT ![c] = "relSettled"]
    /\ hist' = [hist EXCEPT ![c].relDec = @ + 1]
    /\ NoFault
    /\ PoolStep
    /\ UNCHANGED <<maxSize, browsers, queue, npages, browser, retryCount, outcome, settled>>

\* The browser.close() of the last branch rejected: the catch block.
RelElseCloseFail(c) ==
    /\ pc[c] = "relElseClose"
    /\ Fault
    /\ PoolStep
    /\ pc' = [pc EXCEPT ![c] = "relCatchClose"]
    /\ UNCHANGED <<maxSize, poolVars, instVars, browser, retryCount, outcome, settled, hist>>

\* ------------------------------------------------------- the specification
\* The pool under concurrent scrapeDividendData calls, without shutdown.
Next ==
    \E c \in Calls :
        \/ GetBrowser(c)
        \/ LaunchOk(c)
        \/ LaunchFail(c)
        \/ NewPageOk(c)
        \/ NewPageFail(c)
        \/ SetUserAgentOk(c)
        \/ SetUserAgentFail(c)
        \/ SetViewportOk(c)
        \/ SetViewportFail(c)
        \/ GotoOk(c)
        \/ GotoFail(c)
        \/ Backoff(c)
        \/ WaitOk(c)
        \/ WaitFail(c)
        \/ EvaluateOk(c)
        \/ EvaluateFail(c)
        \/ RelPagesOk(c)
        \/ RelPagesFail(c)
        \/ RelClosePageOk(c)
        \/ RelClosePageFail(c)
        \/ RelCatchCloseOk(c)
        \/ RelCatchCloseFail(c)
        \/ FinallyDone(c)

Spec == Init /\ [][Next]_vars

\* ------------------------------------------------------------------ claims
Range(s) == {s[i] : i \in 1..Len(s)}

IsIdle(b) == b \in Range(browsers)

Holders(b) == {c \in Calls : Holds(c, b)}

\* Number of callers with an instance in hand, and of launches in progress.
OnLoan == Cardinality({c \in Calls : pc[c] \in HeldPcs})

Launching == Cardinality({c \in Calls : pc[c] = "launching"})

\* The pcs of a call inside releaseBrowser.
RelPcs == {"relPages", "relClosePage", "relElseClose", "relCatchClose"}

\* C1: in every reachable state activeBrowsers <= maxSize, and the idle, on-loan
\* and launching instances are all counted in activeBrowsers, so together they
\* never exceed maxSize.
C1_ActiveWithinMaxSize ==
    /\ activeBrowsers <= maxSize
    /\ Len(browsers) + OnLoan + Launching <= activeBrowsers

\* C1 witness: a full pool of two made of an idle instance and a launch in
\* progress, after some puppeteer call has failed.
C1_Witness ==
    /\ maxSize = 2
    /\ activeBrowsers = maxSize
    /\ Len(browsers) = 1
    /\ Launching = 1
    /\ faults > 0

\* C2: every open instance is either idle or held by exactly one caller, never
\* both and never by two; the idle list holds no instance twice; an instance that
\* releaseBrowser closed (or tried to close) is neither idle nor held again.
C2_ExclusiveLoan ==
    /\ \A i, j \in 1..Len(browsers) : browsers[i] = browsers[j] => i = j
    /\ \A b \in Browsers :
          /\ inst[b] = "open" =>
                \/ IsIdle(b) /\ Holders(b) = {}
                \/ ~IsIdle(b) /\ Cardinality(Holders(b)) = 1
          /\ inst[b] # "open" => ~IsIdle(b) /\ Holders(b) = {}

\* C2 witness: an instance launched for one caller is now held by another, who
\* got it as a waiter, and releaseBrowser has closed another instance.
C2_Witness ==
    /\ \E b \in Browsers, c \in Calls : Holds(c, b) /\ b # c
    /\ \E c \in Calls : pc[c] \in HeldPcs /\ hist[c].via = "release"
    /\ \E b \in Browsers : inst[b] = "closed"

\* C3: a call that got an instance calls releaseBrowser on it exactly once
\* before it settles, whatever its try block produced, and a call whose
\* getBrowser rejected calls it not at all; so with no call in flight no open
\* instance is away from the idle list.
C3_ReleasedExactlyOnce ==
    /\ [](\A c \in Calls :
            /\ pc[c] \in RelPcs \cup {"relSettled"} =>
                  hist[c].releases = 1 /\ browser[c] # NoBrowser
            /\ pc[c] \in HeldPcs \ RelPcs => hist[c].releases = 0)
    /\ []((\A c \in Calls : ~InFlight(c)) =>
            \A b \in Browsers : inst[b] = "open" => IsIdle(b))
    /\ [][\A c \in Calls :
            pc[c] # "done" /\ pc'[c] = "done" =>
               IF hist[c].via = "none"
                 THEN hist[c].releases = 0 /\ pc[c] = "launching"
                 ELSE hist[c].releases = 1 /\ pc[c] = "relSettled"]_vars

\* C3 witness: every call has settled, one with data, one with an error thrown
\* while it held an instance and one because its launch failed; an instance is
\* back on the idle list.
C3_Witness ==
    /\ \A c \in Calls : pc[c] = "done"
    /\ \E c \in Calls : settled[c] = "data"
    /\ \E c \in Calls : settled[c] = "errLaunch"
    /\ \E c \in Calls : settled[c] \in {"errNewPage", "errTimeout", "errEvaluate"}
    /\ Len(browsers) > 0

\* The callers suspended in getBrowser.
Queued(c) == pc[c] = "queued"

\* In this step the releaseBrowser of c gets past its cleanup.
CleanupDone(c) == pc[c] \in {"relPages", "relClosePage"} /\ pc'[c] = "relSettled"

\* C4: the queue holds the suspended callers in the order of their arrival
\* (calls are numbered in that order), and a caller leaves it with an instance
\* only when no caller that arrived before it is still queued.
C4_WaitersServedInOrder ==
    /\ [](/\ \A i, j \in 1..Len(queue) : i < j => queue[i] < queue[j]
          /\ \A c \in Calls : Queued(c) <=> c \in Range(queue))
    /\ [][\A w \in Calls :
            Queued(w) /\ ~Queued(w)' =>
               /\ browser'[w] # NoBrowser
               /\ \A v \in Calls : Queued(v) => w <= v]_vars

\* C4 witness: of two queued callers the first has been given an instance and
\* the second still waits.
C4_Witness ==
    \E a, b \in Calls :
       /\ a < b
       /\ hist[a].saturated /\ hist[a].via = "release" /\ pc[a] \in HeldPcs
       /\ Queued(b)

\* C5, as stated: a releaseBrowser call made while some caller was queued has
\* unblocked exactly one waiter when it ends.  It is stated here for the calls
\* whose cleanup succeeded only, which the claim as stated includes, so that a
\* violation does not rest on a failed cleanup.
C5_EveryReleaseUnblocksOne ==
    \A c \in Calls :
       pc[c] = "relSettled" /\ hist[c].relQueued /\ ~hist[c].cleanFail =>
          hist[c].wokeN = 1

\* C5, amended: a releaseBrowser call that finds a caller queued when its cleanup
\* has succeeded (the queue is read after the awaits of the cleanup, not when
\* the call is made) unblocks exactly one waiter, the oldest, and hands it the
\* released instance without touching the idle list; one that finds the queue
\* empty, or whose cleanup failed, unblocks none; no step unblocks two waiters.
C5_ReleaseUnblocksOldest ==
    /\ [][\A c \in Calls :
            CleanupDone(c) /\ Len(queue) > 0 =>
               LET w == Head(queue) IN
               /\ pc'[w] = "newPage" /\ browser'[w] = browser[c]
               /\ queue' = Tail(queue)
               /\ browsers' = browsers
               /\ hist'[c].wokeN = 1 /\ hist'[c].woke = w
               /\ \A v \in Calls \ {w} : Queued(v) => Queued(v)']_vars
    /\ [][Cardinality({v \in Calls : Queued(v) /\ ~Queued(v)'}) <= 1]_vars
    /\ [](\A c \in Calls :
            /\ hist[c].wokeN <= 1
            /\ hist[c].cleanFail => hist[c].wokeN = 0)

\* C5 witness: a release has just handed its instance to the older of two
\* waiters; the younger still waits.
C5_Witness ==
    \E c \in Calls :
       /\ pc[c] = "relSettled"
       /\ hist[c].relQueued /\ hist[c].wokeN = 1
       /\ Len(queue) > 0
       /\ pc[hist[c].woke] = "newPage" /\ browser[hist[c].woke] = browser[c]

\* C6: a getBrowser call that found no idle instance and activeBrowsers at
\* maxSize gets its instance only in a step in which the releaseBrowser of a
\* borrower hands that very instance over.
C6_SaturatedCallerWaitsForRelease ==
    /\ [](\A c \in Calls :
            hist[c].saturated /\ pc[c] \in HeldPcs => hist[c].via = "release")
    /\ [](\A c \in Calls :
            hist[c].saturated /\ browser[c] = NoBrowser => Queued(c))
    /\ [][\A c \in Calls :
            (hist[c].saturated \/ Queued(c)) /\ browser[c] = NoBrowser
                 /\ browser'[c] # NoBrowser =>
               \E d \in Calls \ {c} :
                  /\ CleanupDone(d)
                  /\ hist[d].releases = 1
                  /\ browser[d] = browser'[c]]_vars

\* C6 witness: maxSize is 2, the first two calls launched an instance each, and
\* the third, which arrived to a full pool, now holds one of the two.
C6_Witness ==
    /\ maxSize = 2
    /\ inst[1] = "open" /\ inst[2] = "open"
    /\ hist[3].saturated /\ pc[3] \in HeldPcs /\ browser[3] \in {1, 2}

\* C7: releaseBrowser never rejects, so a call settles with what its try block
\* produced and never with an error of the release.
C7_ReleaseNeverRejects ==
    \A c \in Calls : ~hist[c].relThrew /\ settled[c] # "errRelease"

\* C8: when the cleanup of releaseBrowser failed, the call ends with the instance
\* closed, not on the idle list, handed to no waiter, and with activeBrowsers
\* decremented exactly once.
C8_FailedCleanupDestroys ==
    \A c \in Calls :
       pc[c] = "relSettled" /\ hist[c].cleanFail =>
          /\ inst[browser[c]] = "closed"
          /\ ~IsIdle(browser[c]) /\ ~hist[c].toIdle
          /\ hist[c].wokeN = 0
          /\ hist[c].relDec = 1

\* C9: when the launch fails, the step gives back the one reservation the call
\* took (activeBrowsers - 1, net change of the call zero), the call rejects with
\* the launch error after a single launch, and the idle list, the queue and the
\* instances are as they were.
C9_FailedLaunchGivesBack ==
    [][\A c \in Calls :
         pc[c] = "launching" /\ browser'[c] = NoBrowser /\ pc'[c] # "launching" =>
            /\ activeBrowsers' = activeBrowsers - 1
            /\ hist[c].reserved = 1 /\ hist[c].launches = 1
            /\ pc'[c] = "done" /\ settled'[c] = "errLaunch"
            /\ browsers' = browsers /\ queue' = queue /\ inst' = inst]_vars

\* C9 witness: a launch has failed, and the pool has since filled up again and
\* has a caller waiting.
C9_Witness ==
    /\ \E c \in Calls : settled[c] = "errLaunch"
    /\ activeBrowsers = maxSize
    /\ Len(queue) > 0

\* The waits after the first n failed attempts.
ExpectedDelays(n) == [k \in 1..n |-> 1000 * k]

\* C10: page.goto is tried at most 3 times and not again after a success; the
\* wait after the k-th failure is k x 1000 ms; after 3 failures the error of the
\* third attempt is thrown and neither the content wait nor the extraction runs.
C10_NavigationRetry ==
    \A c \in Calls :
       LET h == hist[c] IN
       /\ h.attempts <= 3
       /\ Len(h.delays) <= 2
       /\ h.delays = ExpectedDelays(Len(h.delays))
       /\ pc[c] = "goto" => h.attempts = Len(h.delays) + 1 /\ retryCount[c] = Len(h.delays)
       /\ pc[c] = "backoff" => h.attempts = Len(h.delays) /\ retryCount[c] = Len(h.delays)
       /\ h.ranWait => h.attempts = Len(h.delays) + 1 /\ h.navErr = 0
       /\ h.ranEval => h.ranWait
       /\ outcome[c] = "errNavigation" <=> h.navErr # 0
       /\ h.navErr # 0 =>
             /\ h.navErr = 3 /\ h.attempts = 3
             /\ h.delays = <<1000, 2000>>
             /\ ~h.ranWait /\ ~h.ranEval

\* C10 witness: a navigation failed twice and then succeeded, and the call is
\* about to return data after 3 attempts and waits of 1000 and 2000 ms.
C10_Witness ==
    \E c \in Calls :
       /\ pc[c] = "relSettled" /\ outcome[c] = "data"
       /\ hist[c].attempts = 3
       /\ hist[c].delays = <<1000, 2000>>

\* ------------------------------------------------------------- shutdown
\* A step of a signal handler leaves the calls, the requests and the cache
\* alone.
SigStep ==
    UNCHANGED <<maxSize, queue, npages, callVars, hist, httpVars>>

\* The for-of loop of cleanup() steps to element i of the idle list, or, past
\* its end, empties the list and zeroes the counter; cleanup() returns and
\* the handler reaches process.exit(0).
CleanupFrom(h, i) ==
    IF i <= Len(browsers)
    THEN /\ sig' = [sig EXCEPT ![h] = [pc |-> "closing", idx |-> i, b |-> browsers[i]]]
         /\ UNCHANGED <<browsers, activeBrowsers, exited>>
    ELSE /\ sig' = [sig EXCEPT ![h] = [pc |-> "done", idx |-> 0, b |-> NoBrowser]]
         /\ browsers' = <<>>
         /\ activeBrowsers' = 0
         /\ exited' = TRUE

\* SIGINT or SIGTERM arrives: the handler calls cleanup(), which runs up to
\* its first await browser.close().
Signal(h) ==
    /\ ~exited
    /\ sig[h].pc = "idle"
    /\ \A g \in Signals : g < h => sig[g].pc # "idle"
    /\ CleanupFrom(h, 1)
    /\ NoFault
    /\ UNCHANGED inst
    /\ SigStep

\* The browser.close() of cleanup() resolved.
CleanupCloseOk(h) ==
    /\ ~exited
    /\ sig[h].pc = "closing"
    /\ inst' = [inst EXCEPT ![sig[h].b] = "closed"]
    /\ CleanupFrom(h, sig[h].idx + 1)
    /\ NoFault
    /\ SigStep

\* The browser.close() of cleanup() rejected: the error is logged.
CleanupCloseFail(h) ==
    /\ ~exited
    /\ sig[h].pc = "closing"
    /\ Fault
    /\ inst' = [inst EXCEPT ![sig[h].b] = IF @ = "closed" THEN @ ELSE "lost"]
    /\ CleanupFrom(h, sig[h].idx + 1)
    /\ SigStep

\* The pool under concurrent scrapeDividendData calls and signals.
NextShutdown ==
    \/ Next
    \/ \E h \in Signals :
        \/ Signal(h)
        \/ CleanupCloseOk(h)
        \/ CleanupCloseFail(h)

SpecShutdown == Init /\ [][NextShutdown]_vars

\* ------------------------------------------------------ the result cache
\* NodeCache is a library; its get and set are modelled from the contract of
\* the result cache: an entry is absent once its expiry time has passed.
CacheGet_NoExpiry(k) ==
    IF cache[k].present THEN ObjVal(cache[k].value) ELSE NoVal

\* cache.get(key): the stored object, or undefined.
CacheGet(k) ==
    IF cache[k].present /\ now < cache[k].expires
    THEN ObjVal(cache[k].value)
    ELSE NoVal

\* cache.set(key, value): store or overwrite, expiring stdTTL seconds from now.
CacheSet(k, o) ==
    /\ cache' = [cache EXCEPT ![k] = [present |-> TRUE, value |-> o,
                                       expires |-> now + stdTTL]]
    /\ wrote' = [wrote EXCEPT ![k] = [at |-> now, value |-> o, valid |-> TRUE]]

\* ------------------------------------------------------ the HTTP handlers
\* A step of a request handler or of the cache leaves the pool, the calls
\* and the signal handlers alone.
HttpStep ==
    UNCHANGED <<maxSize, poolVars, instVars, callVars, hist, faults, shutVars>>

Arrives(r) ==
    /\ req[r].kind = "none"
    /\ \A q \in Reqs : q < r => req[q].kind # "none"

\* The fetch succeeded in the sense of the fetch contract: a row was found
\* and its exDate is neither empty nor the placeholder.
FetchSucceeded(res) ==
    /\ res.kind = "row"
    /\ res.row.exDate # ""
    /\ res.row.exDate # "N/A"

\* The status of the catch block of the GET handler.
ErrorStatus(m) ==
    IF IncludesTimeout(m) THEN 408
    ELSE IF IncludesNavigationFailed(m) THEN 503
    ELSE 500

ErrorBody(m) ==
    IF IncludesTimeout(m) THEN ErrVal("Request timeout")
    ELSE IF IncludesNavigationFailed(m) THEN ErrVal("Service unavailable")
    ELSE ErrVal("Scraping failed")

\* What the GET handler does with the result of its scrape: the status, the
\* body, and whether it calls cache.set with the body.
GetOutcome(u, res) ==
    IF res.kind = "error"
    THEN [status |-> ErrorStatus(res.message), body |-> ErrorBody(res.message),
          store |-> FALSE]
    ELSE IF res.kind = "row" /\ res.row.exDate # ""
    THEN IF res.row.exDate = "N/A"
         THEN [status |-> ErrorStatus("No valid dividend data found"),
               body |-> ErrorBody("No valid dividend data found"), store |-> FALSE]
         ELSE [status |-> 200, body |-> ObjVal(Obj(u, res.row, "false")),
               store |-> TRUE]
    ELSE [status |-> 404, body |-> ErrVal("No dividend data found"), store |-> FALSE]

\* GET /dividend/:ticker arrives: validateTicker, then the handler up to its
\* response (400, or 200 from the cache) or up to its await of the scrape.
GetRequest(r, t) ==
    /\ ~exited
    /\ Arrives(r)
    /\ LET u == toUpperCase(t)
           cached == CacheGet(cacheKey(u))
       IN  IF ~MatchesPattern(t)
           THEN req' = [req EXCEPT ![r] =
                    [NoReq EXCEPT !.kind = "get", !.pc = "responded", !.at = now,
                                  !.tickers = <<t>>,
                                  !.status = 400,
                                  !.body = ErrVal("Invalid ticker symbol format")]]
           ELSE IF cached.kind = "object"
           THEN req' = [req EXCEPT ![r] =
                    [NoReq EXCEPT !.kind = "get", !.pc = "responded", !.at = now,
                                  !.tickers = <<t>>,
                                  !.item = <<NoItem>>,
                                  !.status = 200,
                                  !.body = ObjVal([cached.obj EXCEPT !.cached = "true"])]]
           ELSE req' = [req EXCEPT ![r] =
                    [NoReq EXCEPT !.kind = "get", !.pc = "scraping", !.at = now,
                                  !.tickers = <<t>>,
                                  !.item = <<[NoItem EXCEPT !.st = "scraping", !.arg = u,
                                                            !.scraped = TRUE]>>]]
    /\ last' = NoLast
    /\ UNCHANGED <<now, cache, wrote>>
    /\ HttpStep

\* The scrape of a GET settles: the rest of the handler.
GetSettles(r, res) ==
    /\ ~exited
    /\ req[r].kind = "get"
    /\ req[r].pc = "scraping"
    /\ LET u == req[r].item[1].arg
           k == cacheKey(u)
           o == GetOutcome(u, res)
       IN  /\ req' = [req EXCEPT ![r].pc = "responded", ![r].status = o.status,
                                 ![r].body = o.body,
                                 ![r].item[1].st = "done"]
           /\ IF o.store THEN CacheSet(k, o.body.obj) ELSE UNCHANGED <<cache, wrote>>
           /\ last' = [r |-> r, i |-> 1, res |-> res]
    /\ UNCHANGED now
    /\ HttpStep

\* The bodies of POST /dividends/batch: arrays of 0..MaxBatch tickers.
BatchBodies == UNION {[1..n -> Tickers] : n \in 0..MaxBatch}

BatchOutcome_NullEntry(u, res) ==
    IF res.kind = "error"
    THEN [value |-> ErrVal(res.message), store |-> FALSE]
    ELSE IF res.kind = "row"
    THEN [value |-> ObjVal(Obj(u, res.row, "absent")), store |-> TRUE]
    ELSE [value |-> NoVal, store |-> FALSE]

\* What one ticker of a batch contributes to the result map, given the
\* result of its scrape, and whether the object is stored in the cache.
BatchOutcome(u, res) ==
    IF res.kind = "error"
    THEN [value |-> ErrVal(res.message), store |-> FALSE]
    ELSE IF res.kind = "row"
    THEN [value |-> ObjVal(Obj(u, res.row, "absent")), store |-> TRUE]
    ELSE [value |-> ErrVal("No data found"), store |-> FALSE]

\* The synchronous prefix of the async function of tickers.map for one
\* ticker: served from the cache, or suspended in its scrape.
BatchItem(t) ==
    LET u == toUpperCase(t)
        cached == CacheGet(cacheKey(u))
    IN  IF cached.kind = "object"
        THEN [NoItem EXCEPT !.arg = u, !.hit = cached]
        ELSE [NoItem EXCEPT !.st = "scraping", !.arg = u, !.scraped = TRUE]

\* POST /dividends/batch arrives: the two checks of the body, then the
\* synchronous prefix of every ticker, up to await Promise.allSettled.
BatchRequest(r, ts) ==
    /\ ~exited
    /\ Arrives(r)
    /\ Cardinality({q \in Reqs : req[q].kind = "batch"}) < MaxBatchReqs
    /\ IF Len(ts) = 0
       THEN req' = [req EXCEPT ![r] =
                [NoReq EXCEPT !.kind = "batch", !.pc = "responded", !.at = now,
                              !.tickers = ts,
                              !.status = 400,
                              !.body = ErrVal("Tickers array is required")]]
       ELSE IF Len(ts) > maxBatchTickers
       THEN req' = [req EXCEPT ![r] =
                [NoReq EXCEPT !.kind = "batch", !.pc = "responded", !.at = now,
                              !.tickers = ts,
                              !.status = 400,
                              !.body = ErrVal("Maximum 10 tickers allowed per batch request")]]
       ELSE LET items == [i \in 1..Len(ts) |-> BatchItem(ts[i])]
                hits(u) == {i \in 1..Len(ts) : items[i].arg = u /\ items[i].st = "done"}
            IN  req' = [req EXCEPT ![r] =
                    [NoReq EXCEPT !.kind = "batch", !.pc = "awaiting", !.at = now,
                                  !.tickers = ts,
                                  !.item = items,
                                  !.results = [u \in UpperTickers |->
                                      IF hits(u) # {}
                                      THEN items[CHOOSE i \in hits(u) : TRUE].hit
                                      ELSE NoVal]]]
    /\ last' = NoLast
    /\ UNCHANGED <<now, cache, wrote>>
    /\ HttpStep

\* The scrape of ticker i of a batch settles: the rest of its async function.
BatchItemSettles(r, i, res) ==
    /\ ~exited
    /\ req[r].kind = "batch"
    /\ req[r].pc = "awaiting"
    /\ i \in 1..Len(req[r].item)
    /\ req[r].item[i].st = "scraping"
    /\ LET u == req[r].item[i].arg
           k == cacheKey(u)
           o == BatchOutcome(u, res)
       IN  /\ req' = [req EXCEPT ![r].results[u] = o.value,
                                 ![r].item[i].st = "done"]
           /\ IF o.store THEN CacheSet(k, o.value.obj) ELSE UNCHANGED <<cache, wrote>>
           /\ last' = [r |-> r, i |-> i, res |-> res]
    /\ UNCHANGED now
    /\ HttpStep

\* Promise.allSettled resolved: res.json({ results }).
BatchRespond(r) ==
    /\ ~exited
    /\ req[r].kind = "batch"
    /\ req[r].pc = "awaiting"
    /\ \A i \in 1..Len(req[r].item) : req[r].item[i].st = "done"
    /\ req' = [req EXCEPT ![r].pc = "responded", ![r].status = 200]
    /\ last' = NoLast
    /\ UNCHANGED <<now, cache, wrote>>
    /\ HttpStep

\* The response has been sent: the request and its locals are gone.
RequestDone(r) ==
    /\ req[r].pc = "responded"
    /\ req' = [req EXCEPT ![r] = [NoReq EXCEPT !.kind = req[r].kind, !.pc = "closed"]]
    /\ last' = NoLast
    /\ UNCHANGED <<now, cache, wrote>>
    /\ HttpStep

\* DELETE /cache/:ticker
DeleteCache(t) ==
    /\ ~exited
    /\ cache' = [cache EXCEPT ![cacheKey(toUpperCase(t))] = NoEntry]
    /\ wrote' = [wrote EXCEPT ![cacheKey(toUpperCase(t))] = NoWrite]
    /\ last' = NoLast
    /\ UNCHANGED <<now, req>>
    /\ HttpStep

\* DELETE /cache
FlushCache ==
    /\ ~exited
    /\ cache' = [k \in Keys |-> NoEntry]
    /\ wrote' = [k \in Keys |-> NoWrite]
    /\ last' = NoLast
    /\ UNCHANGED <<now, req>>
    /\ HttpStep

\* The periodic check of the cache (checkperiod) drops the expired entries.
Sweep ==
    /\ \E k \in Keys : cache[k].present /\ now >= cache[k].expires
    /\ cache' = [k \in Keys |->
                    IF cache[k].present /\ now >= cache[k].expires THEN NoEntry
                    ELSE cache[k]]
    /\ last' = NoLast
    /\ UNCHANGED <<now, req, wrote>>
    /\ HttpStep

\* A second passes.
Tick ==
    /\ now < MaxTime
    /\ now' = now + 1
    /\ last' = NoLast
    /\ UNCHANGED <<cache, req, wrote>>
    /\ HttpStep

\* The request handlers and the cache within one second: no entry expires.
NextHttp ==
    \/ \E r \in Reqs, t \in Tickers : GetRequest(r, t)
    \/ \E r \in Reqs, res \in ScrapeResults : GetSettles(r, res)
    \/ \E r \in Reqs, ts \in BatchBodies : BatchRequest(r, ts)
    \/ \E r \in Reqs, i \in 1..MaxBatch, res \in ScrapeResults : BatchItemSettles(r, i, res)
    \/ \E r \in Reqs : BatchRespond(r)
    \/ \E r \in Reqs : RequestDone(r)
    \/ \E t \in Tickers : DeleteCache(t)
    \/ FlushCache

\* The pool plays no part in the request handlers: it keeps the size MaxPool.
InitHttp == Init /\ maxSize = MaxPool

SpecHttp == InitHttp /\ [][NextHttp]_vars

\* The cache over time, under GET requests and invalidations.
NextCache ==
    \/ \E r \in Reqs, t \in Tickers : GetRequest(r, t)
    \/ \E r \in Reqs, res \in ScrapeResults : GetSettles(r, res)
    \/ \E r \in Reqs : RequestDone(r)
    \/ \E t \in Tickers : DeleteCache(t)
    \/ FlushCache
    \/ Sweep
    \/ Tick

SpecCache == InitHttp /\ [][NextCache]_vars

\* --------------------------------------------- claims on the HTTP surface
Responded(r, kind) == req[r].kind = kind /\ req[r].pc = "responded"

AllFieldsPresent(row) ==
    /\ row.exDate # ""
    /\ row.payDate # ""
    /\ row.dividend # ""
    /\ row.yield # ""

\* C11: a GET /dividend/:ticker that answers 200 carries all four fields
\* (exDate, payDate, dividend, yield) non-empty, for a fresh scrape and for a
\* response served from the cache, whoever wrote the entry.
\* The handler tests exDate only, and the batch handler caches any row, so
\* this is violated.
C11_Get200HasAllFields ==
    \A r \in Reqs :
        Responded(r, "get") /\ req[r].status = 200 =>
            /\ req[r].body.kind = "object"
            /\ AllFieldsPresent(req[r].body.obj.row)

\* The step just taken was the continuation of the scrape of a GET / of a
\* ticker of a batch (read in the state after the step).
GetSettled == last.r # 0 /\ req[last.r].kind = "get"

BatchSettled == last.r # 0 /\ req[last.r].kind = "batch"

\* The extraction found no row, or a row whose exDate is empty or 'N/A'.
NoDataFound(res) == res.kind # "error" /\ ~FetchSucceeded(res)

\* C12: when the extraction of a GET finds no row, or a row whose exDate is
\* empty or the placeholder 'N/A', the GET answers 404 and the cache is left
\* as it was.
\* A row with exDate 'N/A' makes the handler throw inside its own try block,
\* and its catch answers 500, so this is violated.
C12_NoDataIs404 ==
    [][GetSettled' /\ NoDataFound(last'.res) =>
           /\ req'[last'.r].status = 404
           /\ cache' = cache]_vars

\* The key of the ticker of a GET that has passed validateTicker.
GetKey(r) == cacheKey(toUpperCase(req[r].tickers[1]))

\* C13: an entry written at second t (and not removed by DELETE /cache since)
\* is returned by every lookup before t + stdTTL and is absent for every
\* lookup at or after t + stdTTL; a GET that arrives then scrapes afresh
\* instead of serving the entry, and a GET served from the cache does not
\* scrape; a successful scrape of a GET overwrites the entry and restarts
\* its time to live.
C13_EntryLivesForTtl ==
    /\ [](\A k \in Keys :
            wrote[k].valid =>
                CacheGet(k) = IF now < wrote[k].at + stdTTL
                              THEN ObjVal(wrote[k].value)
                              ELSE NoVal)
    /\ [][\A r \in Reqs :
            /\ req[r].kind = "none"
            /\ req'[r].kind = "get"
            /\ MatchesPattern(req'[r].tickers[1])
            => IF wrote[GetKey(r)'].valid /\ now < wrote[GetKey(r)'].at + stdTTL
               THEN /\ req'[r].pc = "responded"
                    /\ req'[r].status = 200
                    /\ req'[r].body.obj =
                           [wrote[GetKey(r)'].value EXCEPT !.cached = "true"]
               ELSE req'[r].pc = "scraping"]_vars
    /\ [][\A r \in Reqs :
            GetSettled' /\ last'.r = r /\ FetchSucceeded(last'.res) =>
                /\ wrote'[GetKey(r)].at = now
                /\ CacheGet(GetKey(r))' =
                       ObjVal(Obj(req[r].item[1].arg, last'.res.row, "false"))]_vars

\* A GET arrived after the entry of its ticker had expired, found the stale
\* entry still stored, and is scraping afresh.
C13_Witness ==
    \E r \in Reqs :
        /\ req[r].kind = "get"
        /\ req[r].pc = "scraping"
        /\ wrote[GetKey(r)].valid
        /\ cache[GetKey(r)].present
        /\ req[r].at >= wrote[GetKey(r)].at + stdTTL

\* C14: a POST /dividends/batch with 1 to 10 tickers answers 200, and its
\* result map holds an entry under the upper-cased form of every requested
\* ticker: an object for that ticker or an { error } object.  The
\* continuation of one ticker's scrape sets the entry of that ticker to its
\* own result (the row under that ticker, or an error), changes no other
\* entry and no other request, and leaves the request waiting for the rest.
C14_BatchIsolatesFailures ==
    /\ [](\A r \in Reqs :
            /\ Responded(r, "batch")
            /\ Len(req[r].tickers) >= 1
            /\ Len(req[r].tickers) <= maxBatchTickers
            => /\ req[r].status = 200
               /\ \A i \in 1..Len(req[r].tickers) :
                    LET e == req[r].results[toUpperCase(req[r].tickers[i])]
                    IN  \/ e.kind = "error"
                        \/ /\ e.kind = "object"
                           /\ e.obj.ticker = toUpperCase(req[r].tickers[i]))
    /\ [][\A r \in Reqs :
            BatchSettled' /\ last'.r = r =>
                LET u == toUpperCase(req[r].tickers[last'.i])
                IN  /\ req'[r].results[u] =
                           IF last'.res.kind = "row"
                           THEN ObjVal(Obj(u, last'.res.row, "absent"))
                           ELSE IF last'.res.kind = "error"
                           THEN ErrVal(last'.res.message)
                           ELSE ErrVal("No data found")
                    /\ \A v \in UpperTickers \ {u} :
                           req'[r].results[v] = req[r].results[v]
                    /\ \A q \in Reqs \ {r} : req'[q] = req[q]
                    /\ req'[r].pc = "awaiting"
                    /\ req'[r].status = 0]_vars

\* A batch of two tickers has answered: one entry is an error, the other
\* the row of its ticker.
C14_Witness ==
    \E r \in Reqs :
        /\ Responded(r, "batch")
        /\ req[r].status = 200
        /\ Len(req[r].tickers) = 2
        /\ \E u, v \in UpperTickers :
            /\ u # v
            /\ {toUpperCase(req[r].tickers[i]) : i \in 1..2} = {u, v}
            /\ req[r].results[u].kind = "error"
            /\ req[r].results[v].kind = "object"

\* ---------------------------------------------------- claims on shutdown
\* C15: when process.exit is reached after SIGINT or SIGTERM, every instance
\* the pool created, idle or on loan, has been closed.
\* cleanup() closes the instances of the idle list only, so an instance that
\* is on loan when the signal arrives is still open at the exit: violated.
C15_AllClosedAtExit ==
    exited => \A b \in Browsers : inst[b] \in {"absent", "closed"}

\* ---------------------------------------- further claims on the pool
\* C16: while callers are queued, a getBrowser call that arrives does not
\* obtain an instance ahead of them, neither from the idle list nor by
\* launching: it is queued behind them.
\* getBrowser never looks at the queue, and a failed release or a failed
\* launch lowers activeBrowsers without serving a waiter, so the next
\* arrival launches an instance of its own: violated.
C16_NoOvertaking ==
    [][\A c \in Calls :
          pc[c] = "init" /\ pc'[c] # "init" /\ queue # <<>> => pc'[c] = "queued"]_vars

\* C17: the pool never reaches a state in which a caller is queued while no
\* instance is on loan or being launched and no step is left that could wake
\* the caller (every other call has settled; a call inside releaseBrowser
\* counts as holding its instance).  In such a state the queued caller waits
\* for ever, whatever the scheduling.
\* A failed launch or a failed release gives the slot back without waking or
\* launching for a waiter, so such a state is reached: violated.
C17_NoStrandedWaiter ==
    ~ /\ queue # <<>>
      /\ OnLoan = 0
      /\ Launching = 0
      /\ \A c \in Calls : pc[c] \in {"queued", "done"}

\* C18: in every reachable state activeBrowsers equals the number of idle
\* instances plus the instances on loan plus the launches in progress, and
\* is not negative.
\* When the cleanup of a release fails and the browser.close() of its catch
\* block rejects as well, the decrement after it is skipped and the counter
\* stays one too high for good: violated.
C18_AccountingConsistent ==
    /\ activeBrowsers = Len(browsers) + OnLoan + Launching
    /\ activeBrowsers >= 0

\* ------------------------------------- further claims on the HTTP surface
\* C19: scrapeDividendData is only ever invoked with a ticker that matches
\* /^[A-Za-z0-9.-]{1,10}$/, for GET requests and for batch requests.
\* POST /dividends/batch is registered without validateTicker and passes
\* every element of the body, upper-cased, to scrapeDividendData: violated.
C19_ScrapeArgIsValid ==
    \A r \in Reqs :
        \A i \in 1..Len(req[r].item) :
            req[r].item[i].scraped => MatchesPattern(req[r].item[i].arg)

\* C20: the cache is written only by a successful fetch: the continuation of
\* a scrape (of a GET or of a ticker of a batch) that threw, found no row, or
\* found a row whose exDate is empty or 'N/A' leaves every cache entry as it
\* was.
\* The batch handler stores every row the scrape returns, whatever its
\* exDate, so a fetch that found no valid data writes the cache: violated.
C20_OnlySuccessWritesCache ==
    [][(GetSettled' \/ BatchSettled') /\ ~FetchSucceeded(last'.res) =>
           cache' = cache]_vars

====
